---- MODULE Spec2Model ----
(***************************************************************************)
(* CornerStore (src/lib.rs): a sharded in-memory key/value store whose     *)
(* entries may carry an expiry instant, and an ordered expiry index that   *)
(* evict() scans.  set, update, remove and evict take `&mut self`, so the  *)
(* borrow checker runs each of them alone, start to end; each is one       *)
(* action of Spec, composed of the operators that model its statements.    *)
(* ThreadSpec runs the same calls statement by statement on two threads,   *)
(* with the RwLock guards each statement takes and drops; ShardSpec        *)
(* applies the statements that index the shard table to sampled            *)
(* identifiers.                                                            *)
(***************************************************************************)
EXTENDS Integers, Sequences, FiniteSets, TLC

VARIABLES
    data,          \* CornerStore.data: the Vec of shards, each a map HiddenKey -> KeyValuePair
    expiry_times,  \* CornerStore.expiry_times: map Instant -> Vec<HiddenKey>
    created_at,    \* CornerStore.created_at
    now,           \* the monotonic clock read by Instant::now()
    last,          \* the most recent mutating call: its name, its key, what it found
    inputs,        \* the keys and expiry instants the callers of this run pass
    pc,            \* per thread: where in its call it stands
    frame,         \* per thread: the call's arguments and locals
    result,        \* per thread: what its latest call returned
    held,          \* per thread: the RwLock guards it holds
    poisoned       \* the RwLocks a panicking writer has poisoned

vars == <<data, expiry_times, created_at, now, last, inputs,
          pc, frame, result, held, poisoned>>

\* the state of the calling threads
thread_vars == <<pc, frame, result, held, poisoned>>

----------------------------------------------------------------------------
(* Bounds of the model and program constants *)

SHARDS == 128

\* the clock runs from CreatedAt to MaxTime; instant 0 precedes the store
CreatedAt == 1
MaxTime == 2

\* the threads that panic in a run
MaxPanics == 1

Keys == {"a", "b", "c"}
Values == {"v1", "v2"}

\* A run works with two keys and two expiry instants:
\*   keys in different shards, an instant before the store's creation and the
\*   instant of its creation;
\*   keys in the same shard, the instant of creation and one two later, which
\*   is still ahead when the first is due;
\*   keys in different shards, the instant of creation and the next.
Inputs ==
    { [keys |-> {"a", "b"}, instants |-> {CreatedAt - 1, CreatedAt}],
      [keys |-> {"b", "c"}, instants |-> {CreatedAt, CreatedAt + 2}],
      [keys |-> {"a", "c"}, instants |-> {CreatedAt, CreatedAt + 1}] }

\* Option<T>
None == <<>>
Some(x) == <<x>>
Unwrap(o) == o[1]

Expiries(instants) == {None} \cup {Some(t) : t \in instants}

----------------------------------------------------------------------------
(* HiddenKey *)

RECURSIVE BitAnd(_, _)
BitAnd(x, y) ==
    IF x = 0 \/ y = 0 THEN 0
    ELSE (IF x % 2 = 1 /\ y % 2 = 1 THEN 1 ELSE 0) + 2 * BitAnd(x \div 2, y \div 2)

\* DefaultHasher over the key bytes: a fixed 64-bit identifier per key.  The
\* identifiers of the model's keys are pairwise distinct; "b" and "c" fall in
\* the same shard, "a" in another, and each carries bits outside the mask.
HiddenKeyNew(key) ==
    CASE key = "a" -> 1048581      \* 0x100005
      [] key = "b" -> 8195         \* 0x002003
      [] key = "c" -> 12295        \* 0x003007

\* shard with the shift one bit short: ((self.0 & 0xff000) >> 12) as usize
shard_shift12(h) == BitAnd(h, 1044480) \div 4096

\* ((self.0 & 0xff000) >> 13) as usize
shard(h) == BitAnd(h, 1044480) \div 8192

HiddenKeys == {HiddenKeyNew(k) : k \in Keys}

\* A sample of the identifiers HiddenKey(u64) can hold: every value of bits 13
\* to 19, under bits 20 to 30 all clear, lowest set and all set, over bits 0 to
\* 12 all clear, bit 12 alone and all set
Idents ==
    {hi * 1048576 + mid * 8192 + lo :
        hi \in {0, 1, 2047}, mid \in 0..127, lo \in {0, 4096, 8191}}

\* hidden_key.shard() of the model's identifiers, computed once
ShardOf == [h \in HiddenKeys \cup Idents |-> shard(h)]

----------------------------------------------------------------------------
(* HashMap / BTreeMap as functions with a finite domain *)

EmptyMap == [x \in {} |-> None]
MapGet(m, k) == IF k \in DOMAIN m THEN Some(m[k]) ELSE None
MapInsert(m, k, v) == [x \in (DOMAIN m) \cup {k} |-> IF x = k THEN v ELSE m[x]]
MapRemove(m, k) == [x \in (DOMAIN m) \ {k} |-> m[x]]

KeyValuePair(key, value, expiry) == [key |-> key, value |-> value, expiry |-> expiry]

\* &self.data[i]: element i of the Vec is position i + 1 of the sequence
Slot(i) == i + 1

\* self.data[hidden_key.shard()] . get(&hidden_key)
Lookup(d, hk) == MapGet(d[Slot(ShardOf[hk])], hk)

----------------------------------------------------------------------------
(* Reads *)

\* get with the comparison `expiry < Instant::now()`: an entry whose expiry
\* equals the clock is still returned
get_strict(d, t, key) ==
    LET kv == Lookup(d, HiddenKeyNew(key)) IN
    IF kv # None
      THEN IF Unwrap(kv).expiry # None /\ Unwrap(Unwrap(kv).expiry) < t
             THEN None
             ELSE Some(Unwrap(kv).value)
      ELSE None

\* if let Some(kv_pair) = shard.read()?.get(&hidden_key), then the expiry test
get(d, t, key) ==
    LET kv == Lookup(d, HiddenKeyNew(key)) IN
    IF kv # None
      THEN IF Unwrap(kv).expiry # None /\ Unwrap(Unwrap(kv).expiry) <= t
             THEN None
             ELSE Some(Unwrap(kv).value)
      ELSE None

get_key_value(d, t, key) ==
    LET kv == Lookup(d, HiddenKeyNew(key)) IN
    IF kv # None THEN Some(<<Unwrap(kv).key, Unwrap(kv).value>>) ELSE None

get_unchecked(d, key) ==
    LET kv == Lookup(d, HiddenKeyNew(key)) IN
    IF kv # None THEN Some(Unwrap(kv).value) ELSE None

get_key_value_unchecked(d, key) ==
    LET kv == Lookup(d, HiddenKeyNew(key)) IN
    IF kv # None THEN Some(<<Unwrap(kv).key, Unwrap(kv).value>>) ELSE None

----------------------------------------------------------------------------
(* The statements of set, remove and evict *)

\* expiry_times.entry(time).or_insert_with(|| vec![hidden_key])
Register(et, time, hk) ==
    IF time \in DOMAIN et THEN et ELSE MapInsert(et, time, <<hk>>)

\* insert that, when the key has an entry, assigns its value in place
\* (kv_pair.value = value) and keeps the expiry stored before
InsertInPlace(d, hk, kv) ==
    IF Lookup(d, hk) # None
      THEN [d EXCEPT ![Slot(ShardOf[hk])] =
              MapInsert(@, hk, [Unwrap(Lookup(d, hk)) EXCEPT !.value = kv.value])]
      ELSE [d EXCEPT ![Slot(ShardOf[hk])] = MapInsert(@, hk, kv)]

\* insert that keeps an entry already there (entry().or_insert), as set does
\* with a bucket of the expiry index
InsertIfAbsent(d, hk, kv) ==
    IF Lookup(d, hk) # None THEN d
    ELSE [d EXCEPT ![Slot(ShardOf[hk])] = MapInsert(@, hk, kv)]

\* self.data[shard].insert(hidden_key, kv_pair)
Insert(d, hk, kv) == [d EXCEPT ![Slot(ShardOf[hk])] = MapInsert(@, hk, kv)]

\* remove that empties the shard (lock.clear())
DeleteShard(d, hk) == [d EXCEPT ![Slot(ShardOf[hk])] = EmptyMap]

\* lock.remove(&hidden_key)
Delete(d, hk) == [d EXCEPT ![Slot(ShardOf[hk])] = MapRemove(@, hk)]

\* keys.retain(|&x| x != hidden_key) on the bucket of `time`, if there is one
Unregister(et, time, hk) ==
    IF time \in DOMAIN et
      THEN [et EXCEPT ![time] = SelectSeq(@, LAMBDA x : x # hk)]
      ELSE et

\* the instants of expiry_times.range(lo..hi), ascending
RECURSIVE Ascending(_)
Ascending(S) ==
    IF S = {} THEN <<>>
    ELSE LET m == CHOOSE x \in S : \A y \in S : x <= y
         IN <<m>> \o Ascending(S \ {m})

DueTimes(et, lo, hi) == Ascending({t \in DOMAIN et : lo <= t /\ t < hi})

\* items_to_remove.extend(items) over the due buckets
RECURSIVE DueItems(_, _)
DueItems(et, times) ==
    IF times = <<>> THEN <<>>
    ELSE et[Head(times)] \o DueItems(et, Tail(times))

\* for item in &items_to_remove { self.data[item.shard()].remove(&item) }
RECURSIVE RemoveItems(_, _)
RemoveItems(d, items) ==
    IF items = <<>> THEN d
    ELSE RemoveItems(Delete(d, Head(items)), Tail(items))

\* for expiry in &times_to_remove { self.expiry_times.remove(expiry) }
RECURSIVE RemoveTimes(_, _)
RemoveTimes(et, times) ==
    IF times = <<>> THEN et
    ELSE RemoveTimes(MapRemove(et, Head(times)), Tail(times))

----------------------------------------------------------------------------
(* The record of the most recent mutating call *)

\* hit: whether the call found something to replace or remove; ret: its result
Call(op, key, hit) == [op |-> op, key |-> key, hit |-> hit, ret |-> "Ok"]

NoCall == Call("new", "", FALSE)

----------------------------------------------------------------------------
(* Threads, receivers and RwLocks *)

Threads == {1, 2}

\* fn f(&self, ..) and fn f(&mut self, ..)
SharedOps == {"get", "get_key_value", "get_unchecked", "get_key_value_unchecked"}
ExclusiveOps == {"set", "update", "remove", "evict"}

\* the arguments of a call and the locals of evict; `at` is the instant evict read
Frame(op, key, val, expiry) ==
    [op |-> op, key |-> key, val |-> val, expiry |-> expiry,
     at |-> 0, times |-> <<>>, items |-> <<>>]

NoFrame == Frame("none", "", "", None)

\* whether the latest call of a thread returned Ok(..) or Err(..)
NoResult == "none"

\* self.expiry_times and self.data[i]
ExpiryLock == <<"expiry_times", 0>>
ShardLock(i) == <<"data", i>>

\* RwLockReadGuard ("r") and RwLockWriteGuard ("w")
Guard(l, m) == [lock |-> l, mode |-> m]

ThreadsIdle ==
    /\ pc = [t \in Threads |-> "idle"]
    /\ frame = [t \in Threads |-> NoFrame]
    /\ result = [t \in Threads |-> NoResult]
    /\ held = [t \in Threads |-> {}]
    /\ poisoned = {}

----------------------------------------------------------------------------
(* Operations *)

Init ==
    /\ data = [i \in 1..SHARDS |-> EmptyMap]
    /\ expiry_times = EmptyMap
    /\ created_at = CreatedAt
    /\ now = CreatedAt
    /\ last = NoCall
    /\ inputs \in Inputs
    /\ ThreadsIdle

Set(key, val, expiry) ==
    LET hidden_key == HiddenKeyNew(key)
        kv_pair == KeyValuePair(key, val, expiry)
    IN /\ last' = Call("set", key, Lookup(data, hidden_key) # None)
       /\ expiry_times' = IF expiry # None
                            THEN Register(expiry_times, Unwrap(expiry), hidden_key)
                            ELSE expiry_times
       /\ data' = Insert(data, hidden_key, kv_pair)
       /\ UNCHANGED <<created_at, now, inputs, thread_vars>>

\* self.set(key, val, expiry)?
Update(key, val, expiry) == Set(key, val, expiry)

\* every bucket of the index without the identifier
UnregisterAll(et, hk) == [t \in DOMAIN et |-> SelectSeq(et[t], LAMBDA x : x # hk)]

\* remove that does not take the expiry from the entry it found but retains
\* over every bucket of the index, entry or no entry
RemoveScanning(key) ==
    LET hidden_key == HiddenKeyNew(key)
        found == Lookup(data, hidden_key)
    IN /\ last' = Call("remove", key, found # None)
       /\ data' = IF found # None THEN Delete(data, hidden_key) ELSE data
       /\ expiry_times' = UnregisterAll(expiry_times, hidden_key)
       /\ UNCHANGED <<created_at, now, inputs, thread_vars>>

Remove(key) ==
    LET hidden_key == HiddenKeyNew(key)
        found == Lookup(data, hidden_key)
        expiry == IF found # None THEN Unwrap(found).expiry ELSE None
    IN /\ last' = Call("remove", key, found # None)
       /\ data' = IF found # None THEN Delete(data, hidden_key) ELSE data
       /\ expiry_times' = IF expiry # None
                            THEN Unregister(expiry_times, Unwrap(expiry), hidden_key)
                            ELSE expiry_times
       /\ UNCHANGED <<created_at, now, inputs, thread_vars>>

Evict ==
    LET times_to_remove == DueTimes(expiry_times, created_at, now)
        items_to_remove == DueItems(expiry_times, times_to_remove)
    IN /\ last' = Call("evict", "", items_to_remove # <<>>)
       /\ data' = RemoveItems(data, items_to_remove)
       /\ expiry_times' = RemoveTimes(expiry_times, times_to_remove)
       /\ UNCHANGED <<created_at, now, inputs, thread_vars>>

\* A read returns what the operator of the same name computes on the store
\* and the clock, and leaves the store as it is.
Get(key) == UNCHANGED vars

GetKeyValue(key) == UNCHANGED vars

GetUnchecked(key) == UNCHANGED vars

GetKeyValueUnchecked(key) == UNCHANGED vars

\* time passes between calls
Tick ==
    /\ now < MaxTime
    /\ now' = now + 1
    /\ UNCHANGED <<data, expiry_times, created_at, last, inputs, thread_vars>>

Next ==
    \/ \E key \in inputs.keys, val \in Values, expiry \in Expiries(inputs.instants) :
          Set(key, val, expiry)
    \/ \E key \in inputs.keys, val \in Values, expiry \in Expiries(inputs.instants) :
          Update(key, val, expiry)
    \/ \E key \in inputs.keys : Remove(key)
    \/ Evict
    \/ \E key \in inputs.keys : Get(key)
    \/ \E key \in inputs.keys : GetKeyValue(key)
    \/ \E key \in inputs.keys : GetUnchecked(key)
    \/ \E key \in inputs.keys : GetKeyValueUnchecked(key)
    \/ Tick

Spec == Init /\ [][Next]_vars

----------------------------------------------------------------------------
(* The operations as the steps of calling threads *)

\* what the callers of a threaded run pass: a value goes with one kind of expiry
ThreadInputs == [keys |-> {"a", "c"}, instants |-> {CreatedAt}]

SetArgs(instants) ==
    {[val |-> "v1", expiry |-> None]}
       \cup {[val |-> "v2", expiry |-> Some(time)] : time \in instants}

Calls(in) ==
    {Frame(op, key, "", None) : op \in SharedOps \cup {"remove"}, key \in in.keys}
       \cup {Frame(op, key, a.val, a.expiry) :
                op \in {"set", "update"}, key \in in.keys, a \in SetArgs(in.instants)}
       \cup {Frame("evict", "", "", None)}

\* the thread is inside a call: it has the receiver
Active(t) == pc[t] \notin {"idle", "panicked"}

\* a `&mut self` call runs while no other call does, a `&self` call while no
\* `&mut self` call does
MayEnter(t, op) ==
    IF op \in ExclusiveOps
      THEN \A u \in Threads \ {t} : ~Active(u)
      ELSE \A u \in Threads \ {t} : Active(u) => frame[u].op \in SharedOps

\* RwLock::read waits while a writer holds the lock, RwLock::write while anyone does
CanRead(l) == \A u \in Threads : Guard(l, "w") \notin held[u]
CanWrite(l) == \A u \in Threads : Guard(l, "r") \notin held[u] /\ Guard(l, "w") \notin held[u]
Available(l, m) == IF m = "r" THEN CanRead(l) ELSE CanWrite(l)

\* the shard of the key of a call
KeyShard(f) == ShardOf[HiddenKeyNew(f.key)]

\* the call of thread t returns Ok(..) or Err(..)
Return(t, ret) ==
    /\ pc' = [pc EXCEPT ![t] = "idle"]
    /\ result' = [result EXCEPT ![t] = ret]
    /\ frame' = [frame EXCEPT ![t] = NoFrame]

\* the thread goes on to `next` with its frame changed to f
Goto(t, next, f) ==
    /\ pc' = [pc EXCEPT ![t] = next]
    /\ frame' = [frame EXCEPT ![t] = f]
    /\ UNCHANGED result

\* the guard on l goes out of scope
Drop(t, l) == held' = [held EXCEPT ![t] = {g \in @ : g.lock # l}]

\* lock.read() and lock.write() with the error of a poisoned lock unwrapped
\* (e.into_inner()) in place of `?`: the call goes on with the guard
AcquireSwallow(t, l, m, next) ==
    /\ Available(l, m)
    /\ held' = [held EXCEPT ![t] = @ \cup {Guard(l, m)}]
    /\ Goto(t, next, frame[t])
    /\ UNCHANGED <<data, expiry_times, created_at, now, last, inputs, poisoned>>

\* lock.read()? and lock.write()?: wait for the lock; a poisoned lock gives
\* Err, which `?` returns (the caller drops the error and the guard in it)
Acquire(t, l, m, next) ==
    /\ Available(l, m)
    /\ IF l \in poisoned
         THEN Return(t, "Err") /\ UNCHANGED held
         ELSE /\ held' = [held EXCEPT ![t] = @ \cup {Guard(l, m)}]
              /\ Goto(t, next, frame[t])
    /\ UNCHANGED <<data, expiry_times, created_at, now, last, inputs, poisoned>>


FirstPc(f) ==
    CASE f.op \in SharedOps -> "read_lock"
      [] f.op \in {"set", "update"} ->
            IF f.expiry # None THEN "set_expiry_lock" ELSE "set_shard_lock"
      [] f.op = "remove" -> "remove_shard_lock"
      [] f.op = "evict" -> "evict_index_lock"

\* a thread calls an operation of the store it shares with the others: the
\* call starts when it has the receiver; evict: let now = Instant::now()
Begin(t, f) ==
    /\ pc[t] = "idle"
    /\ MayEnter(t, f.op)
    /\ Goto(t, FirstPc(f), IF f.op = "evict" THEN [f EXCEPT !.at = now] ELSE f)
    /\ UNCHANGED <<data, expiry_times, created_at, now, last, inputs, held, poisoned>>

\* get, get_key_value, get_unchecked, get_key_value_unchecked: shard.read()?
ReadLock(t) ==
    /\ pc[t] = "read_lock"
    /\ Acquire(t, ShardLock(KeyShard(frame[t])), "r", "read_held")

\* what the read returns inside Ok
ReadResult(f) ==
    CASE f.op = "get" -> get(data, now, f.key)
      [] f.op = "get_key_value" -> get_key_value(data, now, f.key)
      [] f.op = "get_unchecked" -> get_unchecked(data, f.key)
      [] f.op = "get_key_value_unchecked" -> get_key_value_unchecked(data, f.key)

\* a read that deletes the entry it finds expired
ReadReturnEvicting(t) ==
    /\ pc[t] = "read_held"
    /\ Return(t, "Ok")
    /\ Drop(t, ShardLock(KeyShard(frame[t])))
    /\ data' = IF get_unchecked(data, frame[t].key) # None
                    /\ get(data, now, frame[t].key) = None
                 THEN Delete(data, HiddenKeyNew(frame[t].key))
                 ELSE data
    /\ UNCHANGED <<expiry_times, created_at, now, last, inputs, poisoned>>

\* .get(&hidden_key) under the read guard; the call returns Ok(ReadResult) and
\* the guard is dropped
ReadReturn(t) ==
    /\ pc[t] = "read_held"
    /\ Return(t, "Ok")
    /\ Drop(t, ShardLock(KeyShard(frame[t])))
    /\ UNCHANGED <<data, expiry_times, created_at, now, last, inputs, poisoned>>

\* set (and update, which calls it): self.expiry_times.write()?
SetLockIndex(t) ==
    /\ pc[t] = "set_expiry_lock"
    /\ Acquire(t, ExpiryLock, "w", "set_register")

\* .entry(time).or_insert_with(|| vec![hidden_key]); the guard is a temporary
SetRegister(t) ==
    /\ pc[t] = "set_register"
    /\ expiry_times' = Register(expiry_times, Unwrap(frame[t].expiry),
                                HiddenKeyNew(frame[t].key))
    /\ Drop(t, ExpiryLock)
    /\ Goto(t, "set_shard_lock", frame[t])
    /\ UNCHANGED <<data, created_at, now, last, inputs, poisoned>>

\* self.data[shard].write()?
SetLockShard(t) ==
    /\ pc[t] = "set_shard_lock"
    /\ Acquire(t, ShardLock(KeyShard(frame[t])), "w", "set_insert")

\* set that leaks the shard guard (std::mem::forget): the lock stays taken
SetInsertLeak(t) ==
    /\ pc[t] = "set_insert"
    /\ data' = Insert(data, HiddenKeyNew(frame[t].key),
                      KeyValuePair(frame[t].key, frame[t].val, frame[t].expiry))
    /\ Return(t, "Ok")
    /\ UNCHANGED <<expiry_times, created_at, now, last, inputs, held, poisoned>>

\* .insert(hidden_key, kv_pair); Ok(())
SetInsert(t) ==
    /\ pc[t] = "set_insert"
    /\ data' = Insert(data, HiddenKeyNew(frame[t].key),
                      KeyValuePair(frame[t].key, frame[t].val, frame[t].expiry))
    /\ Drop(t, ShardLock(KeyShard(frame[t])))
    /\ Return(t, "Ok")
    /\ UNCHANGED <<expiry_times, created_at, now, last, inputs, poisoned>>

\* remove: let mut lock = shard.write()?
RemoveLockShard(t) ==
    /\ pc[t] = "remove_shard_lock"
    /\ Acquire(t, ShardLock(KeyShard(frame[t])), "w", "remove_entry")

\* remove without the inner block: the shard guard lives on while the call
\* goes for the expiry index
RemoveEntryHolding(t) ==
    LET hidden_key == HiddenKeyNew(frame[t].key)
        found == Lookup(data, hidden_key)
        expiry == IF found # None THEN Unwrap(found).expiry ELSE None
    IN /\ pc[t] = "remove_entry"
       /\ data' = IF found # None THEN Delete(data, hidden_key) ELSE data
       /\ IF expiry # None
            THEN /\ Goto(t, "remove_expiry_lock", [frame[t] EXCEPT !.expiry = expiry])
                 /\ UNCHANGED held
            ELSE /\ Return(t, "Ok")
                 /\ Drop(t, ShardLock(KeyShard(frame[t])))
       /\ UNCHANGED <<expiry_times, created_at, now, last, inputs, poisoned>>

\* the block that copies the expiry out and removes the entry; its end drops
\* the guard.  Without an expiry the call returns here.
RemoveEntry(t) ==
    LET hidden_key == HiddenKeyNew(frame[t].key)
        found == Lookup(data, hidden_key)
        expiry == IF found # None THEN Unwrap(found).expiry ELSE None
    IN /\ pc[t] = "remove_entry"
       /\ data' = IF found # None THEN Delete(data, hidden_key) ELSE data
       /\ Drop(t, ShardLock(KeyShard(frame[t])))
       /\ IF expiry # None
            THEN Goto(t, "remove_expiry_lock", [frame[t] EXCEPT !.expiry = expiry])
            ELSE Return(t, "Ok")
       /\ UNCHANGED <<expiry_times, created_at, now, last, inputs, poisoned>>

\* self.expiry_times.write()?
RemoveLockIndex(t) ==
    /\ pc[t] = "remove_expiry_lock"
    /\ Acquire(t, ExpiryLock, "w", "remove_retain")

\* .get_mut(&expiry) and keys.retain(..); Ok(())
RemoveRetain(t) ==
    /\ pc[t] = "remove_retain"
    /\ expiry_times' = Unregister(expiry_times, Unwrap(frame[t].expiry),
                                  HiddenKeyNew(frame[t].key))
    /\ Drop(t, ExpiryLock)
    /\ Return(t, "Ok")
    /\ UNCHANGED <<data, created_at, now, last, inputs, poisoned>>

\* evict: self.expiry_times.read()?
EvictLockIndex(t) ==
    /\ pc[t] = "evict_index_lock"
    /\ Acquire(t, ExpiryLock, "r", "evict_scan")

\* where evict goes on with these items and times left
EvictPc(items, times) ==
    IF items # <<>> THEN "evict_shard_lock"
    ELSE IF times # <<>> THEN "evict_time_lock"
    ELSE "evict_return"

\* the loop over .range(self.created_at..now); its end drops the read guard
EvictScan(t) ==
    LET times_to_remove == DueTimes(expiry_times, created_at, frame[t].at)
        items_to_remove == DueItems(expiry_times, times_to_remove)
    IN /\ pc[t] = "evict_scan"
       /\ Drop(t, ExpiryLock)
       /\ Goto(t, EvictPc(items_to_remove, times_to_remove),
               [frame[t] EXCEPT !.times = times_to_remove, !.items = items_to_remove])
       /\ UNCHANGED <<data, expiry_times, created_at, now, last, inputs, poisoned>>

\* self.data[item.shard()].write()?
EvictLockShard(t) ==
    /\ pc[t] = "evict_shard_lock"
    /\ Acquire(t, ShardLock(ShardOf[Head(frame[t].items)]), "w", "evict_remove_item")

\* .remove(&item); the guard is a temporary
EvictRemoveItem(t) ==
    LET item == Head(frame[t].items)
        rest == Tail(frame[t].items)
    IN /\ pc[t] = "evict_remove_item"
       /\ data' = Delete(data, item)
       /\ Drop(t, ShardLock(ShardOf[item]))
       /\ Goto(t, EvictPc(rest, frame[t].times), [frame[t] EXCEPT !.items = rest])
       /\ UNCHANGED <<expiry_times, created_at, now, last, inputs, poisoned>>

\* self.expiry_times.write()?
EvictLockTime(t) ==
    /\ pc[t] = "evict_time_lock"
    /\ Acquire(t, ExpiryLock, "w", "evict_remove_time")

\* .remove(expiry); the guard is a temporary
EvictRemoveTime(t) ==
    LET rest == Tail(frame[t].times)
    IN /\ pc[t] = "evict_remove_time"
       /\ expiry_times' = MapRemove(expiry_times, Head(frame[t].times))
       /\ Drop(t, ExpiryLock)
       /\ Goto(t, EvictPc(<<>>, rest), [frame[t] EXCEPT !.times = rest])
       /\ UNCHANGED <<data, created_at, now, last, inputs, poisoned>>

\* Ok(())
EvictReturn(t) ==
    /\ pc[t] = "evict_return"
    /\ Return(t, "Ok")
    /\ UNCHANGED <<data, expiry_times, created_at, now, last, inputs, held, poisoned>>

\* the positions at which a thread holds a write guard
WriteSections ==
    {"set_register", "set_insert", "remove_entry", "remove_retain",
     "evict_remove_item", "evict_remove_time"}

\* the thread panics under a write guard, before the map is changed: unwinding
\* drops the guard, which poisons its lock, and ends the thread
Panic(t) ==
    /\ pc[t] \in WriteSections
    /\ Cardinality({u \in Threads : pc[u] = "panicked"}) < MaxPanics
    /\ poisoned' = poisoned \cup {g.lock : g \in {h \in held[t] : h.mode = "w"}}
    /\ held' = [held EXCEPT ![t] = {}]
    /\ Goto(t, "panicked", NoFrame)
    /\ UNCHANGED <<data, expiry_times, created_at, now, last, inputs>>

ThreadInit ==
    /\ data = [i \in 1..SHARDS |-> EmptyMap]
    /\ expiry_times = EmptyMap
    /\ created_at = CreatedAt
    /\ now = CreatedAt
    /\ last = NoCall
    /\ inputs = ThreadInputs
    /\ ThreadsIdle

ThreadNext ==
    \/ \E t \in Threads, f \in Calls(inputs) : Begin(t, f)
    \/ \E t \in Threads : ReadLock(t)
    \/ \E t \in Threads : ReadReturn(t)
    \/ \E t \in Threads : SetLockIndex(t)
    \/ \E t \in Threads : SetRegister(t)
    \/ \E t \in Threads : SetLockShard(t)
    \/ \E t \in Threads : SetInsert(t)
    \/ \E t \in Threads : RemoveLockShard(t)
    \/ \E t \in Threads : RemoveEntry(t)
    \/ \E t \in Threads : RemoveLockIndex(t)
    \/ \E t \in Threads : RemoveRetain(t)
    \/ \E t \in Threads : EvictLockIndex(t)
    \/ \E t \in Threads : EvictScan(t)
    \/ \E t \in Threads : EvictLockShard(t)
    \/ \E t \in Threads : EvictRemoveItem(t)
    \/ \E t \in Threads : EvictLockTime(t)
    \/ \E t \in Threads : EvictRemoveTime(t)
    \/ \E t \in Threads : EvictReturn(t)
    \/ \E t \in Threads : Panic(t)
    \/ Tick

ThreadSpec == ThreadInit /\ [][ThreadNext]_vars

\* the steps of a thread inside a call
Step(t) ==
    \/ ReadLock(t) \/ ReadReturn(t)
    \/ SetLockIndex(t) \/ SetRegister(t) \/ SetLockShard(t) \/ SetInsert(t)
    \/ RemoveLockShard(t) \/ RemoveEntry(t) \/ RemoveLockIndex(t) \/ RemoveRetain(t)
    \/ EvictLockIndex(t) \/ EvictScan(t) \/ EvictLockShard(t) \/ EvictRemoveItem(t)
    \/ EvictLockTime(t) \/ EvictRemoveTime(t) \/ EvictReturn(t)

\* a thread inside a call keeps running, and a lock that is free is handed to
\* a thread that waits for it
FairThreadSpec == ThreadSpec /\ \A t \in Threads : WF_vars(Step(t))

----------------------------------------------------------------------------
(* The statements that index the shard table, on any identifier *)

\* set: self.data[hidden_key.shard()].write()?.insert(hidden_key, kv_pair),
\* into a store that is empty
StoreIdent(h) ==
    /\ \A i \in DOMAIN data : data[i] = EmptyMap
    /\ data' = Insert(data, h, KeyValuePair("key", "v1", None))
    /\ last' = Call("set", "key", FALSE)
    /\ UNCHANGED <<expiry_times, created_at, now, inputs, thread_vars>>

\* the get variants: self.data[hidden_key.shard()].read()?.get(&hidden_key)
LookupIdent(h) == UNCHANGED vars

\* remove: self.data[hidden_key.shard()].write()?, lock.remove(&hidden_key)
RemoveIdent(h) ==
    /\ data' = IF Lookup(data, h) # None THEN Delete(data, h) ELSE data
    /\ last' = Call("remove", "key", Lookup(data, h) # None)
    /\ UNCHANGED <<expiry_times, created_at, now, inputs, thread_vars>>

ShardNext ==
    \/ \E h \in Idents : StoreIdent(h)
    \/ \E h \in Idents : LookupIdent(h)
    \/ \E h \in Idents : RemoveIdent(h)

ShardSpec == ThreadInit /\ [][ShardNext]_vars

----------------------------------------------------------------------------
(* State functions and steps the properties speak of *)

\* the shard entry of a key, as an Option<KeyValuePair>
Entry(d, key) == Lookup(d, HiddenKeyNew(key))

\* the entry is there and its expiry is at or before instant t
Expired(e, t) ==
    e # None /\ Unwrap(e).expiry # None /\ Unwrap(Unwrap(e).expiry) <= t

\* the entry is there and is permanent or expires after instant t
Fresh(e, t) ==
    e # None /\ (Unwrap(e).expiry = None \/ Unwrap(Unwrap(e).expiry) > t)

\* some bucket of the expiry index holds the identifier
Registered(et, hk) ==
    \E t \in DOMAIN et : \E i \in DOMAIN et[t] : et[t][i] = hk

\* the step is a set (or update) or a remove on the key
Writes(key) ==
    \/ \E val \in Values, expiry \in Expiries(inputs.instants) : Set(key, val, expiry)
    \/ Remove(key)

\* the instants at which a read may follow, from the present on
Later == now'..MaxTime

----------------------------------------------------------------------------
(* Properties C1 .. C10 *)

\* C1: eviction is effective.  When evict() returns, no shard holds an entry
\* whose stored expiry is at or before the instant evict read (get_unchecked
\* on its key returns None), whatever sets and removes came before.
C1_EvictionEffective ==
    [][Evict =>
         \A key \in inputs.keys :
            /\ ~Expired(Entry(data', key), now)
            /\ Expired(Entry(data, key), now) => get_unchecked(data', key) = None]_vars

\* C2: eviction is scoped.  evict() leaves in its shard every entry whose
\* stored expiry is absent or later than the instant evict read.
C2_EvictionScoped ==
    [][Evict =>
         \A key \in inputs.keys :
            Fresh(Entry(data, key), now) => Entry(data', key) = Entry(data, key)]_vars

\* C3: round trip.  set(k, v, None) makes get(k) return Some(v), and get(k)
\* goes on returning Some(v) over every step that is not a set or a remove
\* on k, whatever is done to other keys and whenever evict runs.
C3_RoundTrip ==
    [][\A key \in inputs.keys, val \in Values :
         /\ Set(key, val, None) => get(data', now', key) = Some(val)
         /\ ( /\ Entry(data, key) # None
              /\ Unwrap(Entry(data, key)).expiry = None
              /\ Unwrap(Entry(data, key)).value = val
              /\ ~Writes(key) )
            => get(data', now', key) = Some(val)]_vars

\* C4: overwrite is wholesale.  After set(k, v2, e2), whatever entry an
\* earlier set left for k, the stored entry is exactly (k, v2, e2):
\* get_unchecked(k) returns Some(v2), get(k) returns Some(v2) or None at any
\* later instant, and Some(v2) whenever e2 is absent or later than the read.
C4_OverwriteWholesale ==
    [][\A key \in inputs.keys, val \in Values, expiry \in Expiries(inputs.instants) :
         Set(key, val, expiry) =>
            /\ Entry(data', key) = Some(KeyValuePair(key, val, expiry))
            /\ get_unchecked(data', key) = Some(val)
            /\ \A t \in Later :
                  /\ get(data', t, key) \in {None, Some(val)}
                  /\ (expiry = None \/ Unwrap(expiry) > t)
                        => get(data', t, key) = Some(val)]_vars

\* a set has just replaced the entry an earlier set had left for its key: the
\* earlier one carried an expiry (the index still names the key), this one none
C4_Witness ==
    /\ last.op = "set" /\ last.hit
    /\ Entry(data, last.key) # None
    /\ Unwrap(Entry(data, last.key)).expiry = None
    /\ Registered(expiry_times, HiddenKeyNew(last.key))

\* C5: expiry hides without erasing.  An entry whose expiry is at or before
\* the clock (equality included) makes get return None and get_unchecked
\* return its value; only evict or a remove of the key takes it out of the
\* shard, and only a set on the key makes get return a value again.
C5_ExpiryHides ==
    [][\A key \in inputs.keys :
         /\ Expired(Entry(data, key), now) =>
               /\ get(data, now, key) = None
               /\ get_unchecked(data, key) = Some(Unwrap(Entry(data, key)).value)
               /\ Entry(data', key) = None => (Evict \/ Remove(key))
               /\ get(data', now', key) # None =>
                     \E val \in Values, expiry \in Expiries(inputs.instants) :
                        Set(key, val, expiry)
         /\ Expired(Entry(data', key), now') =>
               /\ get(data', now', key) = None
               /\ get_unchecked(data', key) = Some(Unwrap(Entry(data', key)).value)]_vars

\* an entry whose expiry equals the clock: hidden by get, shown by get_unchecked
C5_Witness ==
    \E key \in inputs.keys :
       /\ Entry(data, key) # None
       /\ Unwrap(Entry(data, key)).expiry = Some(now)
       /\ get(data, now, key) = None
       /\ get_unchecked(data, key) # None

\* C6: future expiry is live.  set(k, v, Some(t)) makes get(k) return
\* Some(v) at every instant before t, over every step that is not a set or a
\* remove on k, evict included.
C6_FutureExpiryLive ==
    [][\A key \in inputs.keys, val \in Values, t \in inputs.instants :
         /\ (Set(key, val, Some(t)) /\ now' < t) => get(data', now', key) = Some(val)
         /\ ( /\ Entry(data, key) # None
              /\ Unwrap(Entry(data, key)).expiry = Some(t)
              /\ Unwrap(Entry(data, key)).value = val
              /\ now' < t
              /\ ~Writes(key) )
            => get(data', now', key) = Some(val)]_vars

\* C7: removal clears both structures.  When remove(k) returns, k is absent
\* from its shard and no bucket of the expiry index holds k's identifier.
C7_RemoveClearsBoth ==
    [][\A key \in inputs.keys :
         Remove(key) =>
            /\ Entry(data', key) = None
            /\ ~Registered(expiry_times', HiddenKeyNew(key))]_vars

\* C8: get_key_value has the existence semantics of get.  At every instant
\* get_key_value(k) returns Some((key, value)) exactly when get(k) returns
\* Some(value).
C8_SameExistence ==
    \A key \in inputs.keys :
       /\ get_key_value(data, now, key) = None <=> get(data, now, key) = None
       /\ get(data, now, key) # None =>
             get_key_value(data, now, key) = Some(<<key, Unwrap(get(data, now, key))>>)

\* C9: no cross-key interference.  A set or a remove on k1 leaves the shard
\* entry of every key with another identifier as it was, and so the results
\* of get, get_unchecked and get_key_value on it.
C9_NoCrossKey ==
    [][\A k1 \in inputs.keys :
         Writes(k1) =>
            \A k2 \in inputs.keys :
               HiddenKeyNew(k2) # HiddenKeyNew(k1) =>
                  /\ Entry(data', k2) = Entry(data, k2)
                  /\ get(data', now', k2) = get(data, now, k2)
                  /\ get_unchecked(data', k2) = get_unchecked(data, k2)
                  /\ get_key_value(data', now', k2) = get_key_value(data, now, k2)]_vars

\* a set or a remove has just replaced or removed an entry beside the entry
\* of another key in the same shard
C9_Witness ==
    /\ last.op \in {"set", "remove"} /\ last.hit
    /\ \E k2 \in inputs.keys \ {last.key} :
          /\ Entry(data, k2) # None
          /\ ShardOf[HiddenKeyNew(k2)] = ShardOf[HiddenKeyNew(last.key)]

\* C10: idempotent removal.  remove(k) returns Ok and leaves k absent; on a
\* key that is absent it changes neither the shards nor the expiry index, so
\* a second remove(k) changes nothing.
C10_IdempotentRemove ==
    [][\A key \in inputs.keys :
         Remove(key) =>
            /\ last'.ret = "Ok"
            /\ Entry(data', key) = None
            /\ Entry(data, key) = None =>
                  (data' = data /\ expiry_times' = expiry_times)]_vars

\* a remove has just run on a key that was absent while the expiry index
\* still named it
C10_Witness ==
    /\ last.op = "remove" /\ ~last.hit
    /\ Entry(data, last.key) = None
    /\ Registered(expiry_times, HiddenKeyNew(last.key))

----------------------------------------------------------------------------
(* State functions of the threads the properties speak of *)

NoGuard == Guard(<<"none", 0>>, "r")

\* the guard a thread is about to take, at the positions where it takes one
Wanted(t) ==
    CASE pc[t] = "read_lock" -> Guard(ShardLock(KeyShard(frame[t])), "r")
      [] pc[t] \in {"set_shard_lock", "remove_shard_lock"} ->
            Guard(ShardLock(KeyShard(frame[t])), "w")
      [] pc[t] = "evict_shard_lock" ->
            Guard(ShardLock(ShardOf[Head(frame[t].items)]), "w")
      [] pc[t] \in {"set_expiry_lock", "remove_expiry_lock", "evict_time_lock"} ->
            Guard(ExpiryLock, "w")
      [] pc[t] = "evict_index_lock" -> Guard(ExpiryLock, "r")
      [] OTHER -> NoGuard

\* thread u holds a guard that keeps guard g from being taken
HoldsAgainst(u, g) ==
    \E h \in held[u] : h.lock = g.lock /\ (h.mode = "w" \/ g.mode = "w")

\* the thread stands at a lock it cannot take
Blocked(t) ==
    /\ Wanted(t) # NoGuard
    /\ \E u \in Threads : HoldsAgainst(u, Wanted(t))

\* the calls on a key
KeyCalls == {f \in Calls(inputs) : f.op # "evict"}

\* thread u is inside a call on a key of another shard than that of call f
ElsewhereBusy(u, f) ==
    Active(u) /\ frame[u].op # "evict" /\ KeyShard(frame[u]) # KeyShard(f)

----------------------------------------------------------------------------
(* Properties C11 .. C20 *)

\* C11: shard independence.  A call on a key of one shard never has to wait
\* for a thread that is inside a call on a key of another shard: it can start
\* while the other runs, and the lock it goes for is not held by the other.
\* In particular two set calls with an expiry on keys of different shards run
\* side by side.
C11_ShardIndependence ==
    \A t \in Threads, u \in Threads :
       t # u =>
          /\ \A f \in KeyCalls :
                (pc[t] = "idle" /\ ElsewhereBusy(u, f)) => MayEnter(t, f.op)
          /\ (Active(t) /\ frame[t].op # "evict" /\ ElsewhereBusy(u, frame[t]))
                => ~HoldsAgainst(u, Wanted(t))

\* C12: error taxonomy.  A call returns Err exactly when a lock it goes to
\* take (its shard's or the expiry index's) is poisoned, and every such
\* acquisition ends the call with Err; a get variant, a remove or an evict that
\* finds nothing returns Ok (Ok(None) for the get variants).
C12_ErrorTaxonomy ==
    [][\A t \in Threads :
         LET poisoned_lock == Wanted(t) # NoGuard /\ Wanted(t).lock \in poisoned
             steps == pc'[t] # pc[t]
             returns == Active(t) /\ pc'[t] = "idle"
             absent == frame[t].op # "evict" /\ Entry(data, frame[t].key) = None
         IN /\ returns => result'[t] = IF poisoned_lock THEN "Err" ELSE "Ok"
            /\ (poisoned_lock /\ steps) => returns
            /\ (pc[t] = "read_held" /\ absent /\ steps)
                  => (returns /\ ReadResult(frame[t]) = None)
            /\ (pc[t] = "remove_entry" /\ absent /\ steps /\ pc'[t] # "panicked")
                  => returns
            /\ (pc[t] = "evict_scan" /\ steps
                  /\ DueTimes(expiry_times, created_at, frame[t].at) = <<>>)
                  => pc'[t] = "evict_return"
            /\ (pc[t] = "evict_return" /\ steps) => returns]_vars

\* a call has returned Err from a lock that a thread panicking under its
\* write guard had poisoned
C12_Witness ==
    \E t \in Threads :
       /\ result[t] = "Err"
       /\ pc[t] = "idle"
       /\ poisoned # {}
       /\ \E u \in Threads \ {t} : pc[u] = "panicked"

\* C13: index-to-shard consistency.  Between calls, every identifier in the
\* bucket of an instant T of the expiry index has an entry in its shard whose
\* stored expiry is T, after any sequence of set, update, remove and evict.
C13_IndexConsistent ==
    \A time \in DOMAIN expiry_times :
       \A i \in DOMAIN expiry_times[time] :
          LET kv == Lookup(data, expiry_times[time][i])
          IN kv # None /\ Unwrap(kv).expiry = Some(time)

\* the bucket of the instant holds the identifier
InBucket(et, time, hk) ==
    time \in DOMAIN et /\ \E i \in DOMAIN et[time] : et[time][i] = hk

\* C14: registration on set.  After set(k, v, Some(T)) the bucket of T holds
\* k's identifier, whether the bucket was absent, held other identifiers or
\* was empty; so between calls every shard entry with an expiry T is
\* registered under T.
C14_RegisteredOnSet ==
    [][/\ \A key \in inputs.keys, val \in Values, time \in inputs.instants :
             Set(key, val, Some(time)) =>
                InBucket(expiry_times', time, HiddenKeyNew(key))
       /\ \A key \in inputs.keys :
             LET kv == Entry(data', key)
             IN (kv # None /\ Unwrap(kv).expiry # None) =>
                   InBucket(expiry_times', Unwrap(Unwrap(kv).expiry), HiddenKeyNew(key))]_vars

Deadlocked ==
    /\ \E t \in Threads : Active(t)
    /\ \A t \in Threads : Active(t) => Blocked(t)

\* C16: deadlock freedom and completion.  With threads running get variants,
\* set, update, remove and evict on any keys, in no state is every thread that
\* is inside a call blocked on a lock; and while no lock is poisoned every
\* call that has started returns.
C16_DeadlockFree ==
    /\ []~Deadlocked
    /\ \A t \in Threads : Active(t) ~> (pc[t] = "idle" \/ poisoned # {})

\* two threads are inside calls at once, holding guards of the same lock
C16_Witness ==
    \E t \in Threads, u \in Threads :
       /\ t # u
       /\ Active(t) /\ Active(u)
       /\ \E g \in held[t], h \in held[u] : g.lock = h.lock

\* the entries the set calls of a run write for a key
Written(key) ==
    {KeyValuePair(key, a.val, a.expiry) : a \in SetArgs(inputs.instants)}

\* thread t has the write guard of shard i and no other thread a guard of it
WritesAlone(t, i) ==
    /\ Guard(ShardLock(i), "w") \in held[t]
    /\ \A u \in Threads \ {t} : \A g \in held[u] : g.lock # ShardLock(i)

\* C17: per-entry atomicity.  The value and the expiry stored for a key are
\* those of one set call; a set leaves exactly its own entry, under the write
\* guard of the shard and with no other guard on it, so that of several sets
\* the last to take the shard lock decides the entry; a read returns, under
\* the read guard and beside no writer, None or the value (and key) of one
\* such entry.
C17_EntryAtomic ==
    [][/\ \A key \in inputs.keys :
             Entry(data', key) = None \/ Unwrap(Entry(data', key)) \in Written(key)
       /\ \A t \in Threads :
             /\ SetInsert(t) =>
                   /\ WritesAlone(t, KeyShard(frame[t]))
                   /\ Entry(data', frame[t].key) =
                         Some(KeyValuePair(frame[t].key, frame[t].val, frame[t].expiry))
             /\ ReadReturn(t) =>
                   /\ Guard(ShardLock(KeyShard(frame[t])), "r") \in held[t]
                   /\ \A u \in Threads : Guard(ShardLock(KeyShard(frame[t])), "w") \notin held[u]
                   /\ \/ ReadResult(frame[t]) = None
                      \/ \E kv \in Written(frame[t].key) :
                            /\ Entry(data, frame[t].key) = Some(kv)
                            /\ ReadResult(frame[t]) =
                                  IF frame[t].op \in {"get", "get_unchecked"}
                                    THEN Some(kv.value)
                                    ELSE Some(<<kv.key, kv.value>>)
       /\ \A i \in {ShardOf[h] : h \in HiddenKeys} :
             data'[Slot(i)] # data[Slot(i)] => \E t \in Threads : WritesAlone(t, i)]_vars

\* a get holds the read guard of a shard whose entry a set with another value
\* and expiry has replaced, while a set of the other thread has to wait
C17_Witness ==
    \E t \in Threads, u \in Threads :
       /\ t # u
       /\ pc[t] = "read_held"
       /\ Entry(data, frame[t].key) = Some(KeyValuePair(frame[t].key, "v1", None))
       /\ InBucket(expiry_times, CreatedAt, HiddenKeyNew(frame[t].key))
       /\ pc[u] = "idle" /\ result[u] = "Ok"
       /\ ~MayEnter(u, "set")

\* C18: reads never mutate.  The steps of get, get_key_value, get_unchecked
\* and get_key_value_unchecked leave every shard and the expiry index as they
\* are, also when get hides an expired entry; the only guard such a call holds
\* is the read guard of its key's shard; only set, update, remove and evict
\* change the store.
C18_ReadsNeverMutate ==
    [][\A t \in Threads :
         /\ (frame[t].op \in SharedOps /\ pc'[t] # pc[t]) =>
               /\ data' = data /\ expiry_times' = expiry_times
               /\ held[t] \subseteq {Guard(ShardLock(KeyShard(frame[t])), "r")}
               /\ held'[t] \subseteq {Guard(ShardLock(KeyShard(frame[t])), "r")}
         /\ (data' # data \/ expiry_times' # expiry_times) =>
               \E u \in Threads : frame[u].op \in ExclusiveOps /\ pc'[u] # pc[u]]_vars

\* get holds the read guard of the shard of an entry it is about to hide: the
\* entry's expiry has passed
C18_Witness ==
    \E t \in Threads :
       /\ pc[t] = "read_held"
       /\ frame[t].op = "get"
       /\ Expired(Entry(data, frame[t].key), now)
       /\ ReadResult(frame[t]) = None

\* bits 13 to 19 of an identifier
Field(h) == (h \div 8192) % 128

\* C19: shard selection.  For every identifier h, shard(h) lies in 0..=127,
\* below the 128 shards new() allocates, and is the number bits 13 to 19 of h
\* spell, whatever the other bits; every index 0..=127 is the shard of some
\* identifier; an entry is stored in, found in and removed from the shard
\* with index shard(h), inside the table.
C19_ShardSelection ==
    /\ Len(data) = SHARDS
    /\ \A h \in Idents : ShardOf[h] \in 0..(SHARDS - 1) /\ ShardOf[h] = Field(h)
    /\ \A i \in 0..(SHARDS - 1) : \E h \in Idents : ShardOf[h] = i
    /\ \A i \in DOMAIN data :
          \A h \in DOMAIN data[i] : i = Slot(ShardOf[h]) /\ Lookup(data, h) # None
    /\ (last.op = "remove" /\ last.hit) => \A i \in DOMAIN data : data[i] = EmptyMap

\* the last shard holds an entry whose identifier has bits set below and above
\* the bits that select the shard
C19_Witness ==
    \E h \in DOMAIN data[SHARDS] :
       /\ ShardOf[h] = SHARDS - 1
       /\ h % 8192 # 0
       /\ h \div 1048576 # 0
       /\ Lookup(data, h) # None

\* C20: empty buckets are pruned.  Between calls the expiry index holds no
\* bucket without identifiers: evict deletes every bucket it drained, and a
\* remove that takes the last identifier out of a bucket deletes the bucket.
C20_EmptyBucketsPruned ==
    [][/\ \A time \in DOMAIN expiry_times' : expiry_times'[time] # <<>>
       /\ Evict =>
             \A time \in DOMAIN expiry_times :
                (created_at <= time /\ time < now) => time \notin DOMAIN expiry_times']_vars

====
